---- MODULE Spec2Model ----
(***************************************************************************)
(* Model of EventimStatsJob.py: one run of main() over a shared requests   *)
(* session with urllib3 retries, the three fetch functions, the pandas     *)
(* flattening of a detail document and the export of the report.           *)
(***************************************************************************)
EXTENDS Integers, Sequences, FiniteSets, TLC

(***************************************************************************)
(* Bounds of the model.                                                    *)
(***************************************************************************)
\* longest listing the server returns
MaxIds == 3
\* most fields of a generated detail object at its top level
MaxFields == 2
\* most fields of a generated nested object
MaxKids == 1

(***************************************************************************)
(* create_session: Retry(total=3, status_forcelist=[429,500,502,503,504]). *)
(***************************************************************************)
RetryTotal == 3
StatusForcelist == {429, 500, 502, 503, 504}
\* urllib3's Retry.DEFAULT_ALLOWED_METHODS, which create_session leaves as is
AllowedMethods == {"HEAD", "GET", "PUT", "DELETE", "OPTIONS", "TRACE"}

Methods == {"POST", "GET"}
\* statuses the server answers with: success, a forcelist status, another 4xx
Statuses == {200, 500, 404}
\* a script is what the server answers on the 1st, 2nd, ... attempt
ScriptLen == RetryTotal + 1
Scripts == [1..ScriptLen -> Statuses]

(***************************************************************************)
(* Python's exception classes, as far as the except clauses tell them      *)
(* apart: RequestException derives from IOError (= OSError), and           *)
(* EnvironmentError is OSError itself.                                     *)
(***************************************************************************)
NoExc == "none"
ParentClass(c) ==
    CASE c = "HTTPError" -> "RequestException"
      [] c = "RetryError" -> "RequestException"
      [] c = "RequestException" -> "OSError"
      [] c = "EnvironmentError" -> "OSError"
      [] c = "OSError" -> "Exception"
      [] c = "KeyError" -> "Exception"
      [] c = "TypeError" -> "Exception"
      [] c = "ValueError" -> "Exception"
      [] c = "NotImplementedError" -> "Exception"
      [] c = "InvalidIndexError" -> "Exception"
      [] OTHER -> "BaseException"

RECURSIVE IsInstance(_, _)
IsInstance(c, cls) ==
    IF c = cls THEN TRUE
    ELSE IF c = "BaseException" THEN FALSE
    ELSE IsInstance(ParentClass(c), cls)

(***************************************************************************)
(* The transport: urllib3's retry loop under the session's Retry object.   *)
(* is_retry: a response is retried when its method is an allowed method    *)
(* and its status is in the forcelist.  increment lowers total by one and  *)
(* the budget is exhausted when total falls below zero.                    *)
(***************************************************************************)
IsRetry(method, status) ==
    method \in AllowedMethods /\ status \in StatusForcelist

RECURSIVE Urlopen(_, _, _, _)
Urlopen(method, script, attempt, total) ==
    LET status == script[attempt] IN
    IF IsRetry(method, status)
    THEN IF total - 1 < 0
         THEN [exc |-> "RetryError", status |-> status, attempts |-> attempt]
         ELSE Urlopen(method, script, attempt + 1, total - 1)
    ELSE [exc |-> NoExc, status |-> status, attempts |-> attempt]

\* session.post / session.get followed by response.raise_for_status()
Request(method, script) ==
    LET r == Urlopen(method, script, 1, RetryTotal) IN
    IF r.exc # NoExc THEN r
    ELSE IF r.status >= 400 THEN [r EXCEPT !.exc = "HTTPError"]
    ELSE r

\* what a request of the method can come to, over every script of the server
Replies(method) == {Request(method, script) : script \in Scripts}

(***************************************************************************)
(* JSON detail documents.  A key is a sequence of tokens, "." being the    *)
(* dot character, so that a key may itself contain a dot.  A node is a     *)
(* field: a leaf, or a nested object with its own fields.  The value of a  *)
(* leaf is written as its origin (who served it, and its path in the       *)
(* document), which keeps the values of distinct leaves distinct.          *)
(***************************************************************************)
Dot == "."
KeyId == <<"id">>
KeyTimestamp == <<"timestamp">>
KeyEv == <<"ev">>
KeyEvId == <<"ev", Dot, "id">>
Keys == {KeyId, KeyTimestamp, KeyEv, KeyEvId}

Leaf(k) == [k |-> k, leaf |-> TRUE, kids |-> <<>>]
Obj(k, kids) == [k |-> k, leaf |-> FALSE, kids |-> kids]

DistinctKeys(nodes) ==
    \A i, j \in 1..Len(nodes) : i # j => nodes[i].k # nodes[j].k

LeafNodes == {Leaf(k) : k \in Keys}
KidSeqs ==
    {s \in UNION {[1..n -> LeafNodes] : n \in 0..MaxKids} : DistinctKeys(s)}
Nodes == LeafNodes \cup {Obj(k, s) : k \in Keys, s \in KidSeqs}
\* an object three levels deep: {ev: {id, timestamp: {id}}}
DocDeep == <<Obj(KeyEv, <<Leaf(KeyId), Obj(KeyTimestamp, <<Leaf(KeyId)>>)>>)>>
Docs ==
    {d \in UNION {[1..n -> Nodes] : n \in 1..MaxFields} : DistinctKeys(d)}
        \cup {DocDeep}

Value(src, path) == [src |-> src, path |-> path]
NaN == Value("NaN", <<>>)
UtcNow == Value("utcnow", <<>>)

(***************************************************************************)
(* A Python dict with string keys, in insertion order: d[key] = val        *)
(* replaces the value of a key already there, in place, and appends a new  *)
(* key at the end.                                                         *)
(***************************************************************************)
DictHas(d, key) == \E i \in 1..Len(d) : d[i].col = key

DictSet(d, key, val) ==
    IF DictHas(d, key)
    THEN [i \in 1..Len(d) |->
             IF d[i].col = key THEN [col |-> key, val |-> val] ELSE d[i]]
    ELSE Append(d, [col |-> key, val |-> val])

(***************************************************************************)
(* pd.json_normalize of one object: the fields that are not objects come   *)
(* first, in document order, and then the nested ones, depth first, each   *)
(* under the dotted join of the keys on its path.                          *)
(***************************************************************************)
RECURSIVE NormaliseJson(_, _, _, _, _)
NormaliseJson(src, nodes, key_string, path, acc) ==
    IF nodes = <<>> THEN acc
    ELSE LET n == Head(nodes)
             new_key == IF key_string = <<>> THEN n.k
                        ELSE key_string \o <<Dot>> \o n.k
             new_path == Append(path, n.k)
             acc1 == IF n.leaf
                     THEN DictSet(acc, new_key, Value(src, new_path))
                     ELSE NormaliseJson(src, n.kids, new_key, new_path, acc)
         IN  NormaliseJson(src, Tail(nodes), key_string, path, acc1)

IsLeafNode(n) == n.leaf
IsObjNode(n) == ~n.leaf

JsonNormalize(src, doc) ==
    LET top == NormaliseJson(src, SelectSeq(doc, IsLeafNode), <<>>, <<>>, <<>>)
    IN  NormaliseJson(src, SelectSeq(doc, IsObjNode), <<>>, <<>>, top)

\* col.split('.')[-1]
LastSegment(col) ==
    LET dots == {i \in 1..Len(col) : col[i] = Dot} IN
    IF dots = {} THEN col
    ELSE LET last == CHOOSE i \in dots : \A j \in dots : j <= i
         IN  SubSeq(col, last + 1, Len(col))

\* a DataFrame of one row: its column labels and the row's cells, by position
Frame(cols, vals) == [cols |-> cols, vals |-> vals]
NoFrame == Frame(<<>>, <<>>)

\* df.columns = [col.split('.')[-1] for col in df.columns]
\* the renaming done through a dict keyed by the new name, where a later field
\* of a name replaces an earlier one
RECURSIVE RenameColumnsIntoDict(_, _)
RenameColumnsIntoDict(d, acc) ==
    IF d = <<>>
    THEN Frame([i \in 1..Len(acc) |-> acc[i].col],
               [i \in 1..Len(acc) |-> acc[i].val])
    ELSE RenameColumnsIntoDict(
             Tail(d), DictSet(acc, LastSegment(Head(d).col), Head(d).val))

RenameColumnsOverwriting(d) == RenameColumnsIntoDict(d, <<>>)

RenameColumns(d) ==
    Frame([i \in 1..Len(d) |-> LastSegment(d[i].col)],
          [i \in 1..Len(d) |-> d[i].val])

\* df['timestamp'] = now: every column of that label is set, or one is added
SetTimestamp(df) ==
    IF \E i \in 1..Len(df.cols) : df.cols[i] = KeyTimestamp
    THEN Frame(df.cols,
               [i \in 1..Len(df.cols) |->
                   IF df.cols[i] = KeyTimestamp THEN UtcNow ELSE df.vals[i]])
    ELSE Frame(Append(df.cols, KeyTimestamp), Append(df.vals, UtcNow))

\* lines 80-82 of fetch_registration_detail, for an object body
Flatten(src, doc) == SetTimestamp(RenameColumns(JsonNormalize(src, doc)))

(***************************************************************************)
(* pd.concat(all_data, ignore_index=True): the rows in order under the     *)
(* union of the columns.  Frames of equal columns are stacked as they are; *)
(* otherwise each frame is reindexed to the union, which pandas refuses    *)
(* for a frame whose column labels repeat.                                 *)
(***************************************************************************)
Table(exc, cols, rows) == [exc |-> exc, cols |-> cols, rows |-> rows]
NoTable == Table(NoExc, <<>>, <<>>)

HasDuplicates(cols) == \E i, j \in 1..Len(cols) : i # j /\ cols[i] = cols[j]

RECURSIVE UnionColumns(_, _)
UnionColumns(frames, acc) ==
    IF frames = <<>> THEN acc
    ELSE LET cols == Head(frames).cols
             IsNew(c) == \A i \in 1..Len(acc) : acc[i] # c
         IN  UnionColumns(Tail(frames), acc \o SelectSeq(cols, IsNew))

Reindex(df, cols) ==
    [j \in 1..Len(cols) |->
        IF \E i \in 1..Len(df.cols) : df.cols[i] = cols[j]
        THEN df.vals[CHOOSE i \in 1..Len(df.cols) : df.cols[i] = cols[j]]
        ELSE NaN]

Concat(frames) ==
    IF frames = <<>> THEN Table("ValueError", <<>>, <<>>)
    ELSE IF \A i \in 1..Len(frames) : frames[i].cols = frames[1].cols
    THEN Table(NoExc, frames[1].cols, [i \in 1..Len(frames) |-> frames[i].vals])
    ELSE IF \E i \in 1..Len(frames) : HasDuplicates(frames[i].cols)
    THEN Table("InvalidIndexError", <<>>, <<>>)
    ELSE LET cols == UnionColumns(frames, <<>>)
         IN  Table(NoExc, cols,
                   [i \in 1..Len(frames) |-> Reindex(frames[i], cols)])

(***************************************************************************)
(* The environment and the server.                                         *)
(***************************************************************************)
Unset == "<unset>"
EnvValues == {Unset, "", "set"}
\* `not value`: None and the empty string
Falsy(v) == v \in {Unset, ""}

Tokens == {"tokA", "tokB"}
Absent == "<absent>"
NoToken == "<none>"
TokenBodies == {[access_token |-> t] : t \in Tokens \cup {Absent}}

Uuids == {"u1", "u2"}
NoUuid == "<nouuid>"
\* a JSON list of objects (an item may lack uuid), the empty object {}, or a
\* non-empty object such as {"error": ...}
ListBodies ==
    {[shape |-> "list", items |-> s] :
        s \in UNION {[1..n -> Uuids \cup {NoUuid}] : n \in 0..MaxIds}}
    \cup {[shape |-> "emptyobject", items |-> <<>>],
          [shape |-> "object", items |-> <<>>]}

DocPlain == <<Leaf(KeyId), Obj(KeyEv, <<Leaf(KeyTimestamp)>>)>>
DocOther == <<Leaf(KeyEv)>>
DocClash == <<Leaf(KeyId), Obj(KeyEv, <<Leaf(KeyId)>>)>>
DetailDocs == {DocPlain, DocOther, DocClash}
ScalarBody == [shape |-> "scalar", doc |-> <<>>]
\* a JSON object, or a JSON scalar such as 5 or null
DetailBodies ==
    {[shape |-> "object", doc |-> d] : d \in DetailDocs}
    \cup {ScalarBody}

(***************************************************************************)
(* The functions main() calls, r being what the session's request comes   *)
(* to and body the JSON of a successful response.  Each yields what it     *)
(* returns or raises (exc), the requests it sent and the lines it logged.  *)
(***************************************************************************)
\* f'Bearer {token}'
BearerLiteral(token) == <<"Bearer", "token">>

Bearer(token) == <<"Bearer", token>>
NoAuth == <<>>
Req(kind, method, auth, uuid) ==
    [kind |-> kind, method |-> method, auth |-> auth, uuid |-> uuid]

\* get_credentials: `if not client_id or not client_secret: raise`
CredentialsMissingBoth(client_id, client_secret) ==
    Falsy(client_id) /\ Falsy(client_secret)

CredentialsMissing(client_id, client_secret) ==
    Falsy(client_id) \/ Falsy(client_secret)

\* get_report_dir: `if not report_dir: raise`
ReportDirMissing(report_dir) == Falsy(report_dir)

\* response.json()['access_token']
AccessTokenOf(body) == body.access_token

fetch_access_token(e, r, body) ==
    IF CredentialsMissing(e.client_id, e.client_secret)
    THEN [exc |-> "EnvironmentError", ret |-> NoToken, reqs |-> <<>>,
          logs |-> <<>>]
    ELSE LET reqs == <<Req("token", "POST", NoAuth, "")>>
         IN  IF r.exc # NoExc
             THEN [exc |-> r.exc, ret |-> NoToken, reqs |-> reqs,
                   logs |-> IF IsInstance(r.exc, "RequestException")
                            THEN <<"error:token">> ELSE <<>>]
             ELSE IF AccessTokenOf(body) = Absent
             THEN [exc |-> "KeyError", ret |-> NoToken, reqs |-> reqs,
                   logs |-> <<>>]
             ELSE [exc |-> NoExc, ret |-> AccessTokenOf(body), reqs |-> reqs,
                   logs |-> <<>>]

\* [reg['uuid'] for reg in response.json()]
UuidsOf(body) ==
    IF body.shape = "object" THEN [exc |-> "TypeError", ret |-> <<>>]
    ELSE IF \E i \in 1..Len(body.items) : body.items[i] = NoUuid
    THEN [exc |-> "KeyError", ret |-> <<>>]
    ELSE [exc |-> NoExc, ret |-> body.items]

fetch_registration_uuids(token, r, body) ==
    LET reqs == <<Req("list", "GET", Bearer(token), "")>>
    IN  IF r.exc # NoExc
        THEN [exc |-> r.exc, ret |-> <<>>, reqs |-> reqs,
              logs |-> IF IsInstance(r.exc, "RequestException")
                       THEN <<"error:registrations">> ELSE <<>>]
        ELSE [exc |-> UuidsOf(body).exc, ret |-> UuidsOf(body).ret,
              reqs |-> reqs, logs |-> <<>>]

\* the except clause of fetch_registration_detail
DetailCatches(exc) == IsInstance(exc, "RequestException")

fetch_registration_detail(token, uuid, r, body) ==
    LET reqs == <<Req("detail", "GET", Bearer(token), uuid)>>
        exc == IF r.exc # NoExc THEN r.exc
               ELSE IF body.shape = "scalar" THEN "NotImplementedError"
               ELSE NoExc
    IN  IF exc = NoExc
        THEN [exc |-> NoExc, none |-> FALSE, df |-> Flatten(uuid, body.doc),
              reqs |-> reqs, logs |-> <<>>]
        ELSE IF DetailCatches(exc)
        THEN [exc |-> NoExc, none |-> TRUE, df |-> NoFrame, reqs |-> reqs,
              logs |-> <<"warning:detail">>]
        ELSE [exc |-> exc, none |-> TRUE, df |-> NoFrame, reqs |-> reqs,
              logs |-> <<>>]

(***************************************************************************)
(* One run of main().                                                      *)
(***************************************************************************)
VARIABLES
    env,            \* os.environ: client_id, client_secret, report_dir
    pc,             \* where main() is
    token,          \* main's token
    uuids,          \* main's uuids
    idx,            \* position of the for loop in uuids
    all_data,       \* main's all_data
    final_df,       \* main's final_df
    requests,       \* every request sent through the session, in order
    calls,          \* the calls of fetch_registration_detail, in order
    outcomes,       \* how each of those calls ended
    logs,           \* the lines logged, in order
    dir_made,       \* os.makedirs(report_dir) was done
    file,           \* the table written by to_excel
    raised,         \* the exception that left main's try body
    authCalls,      \* the calls of fetch_access_token
    issued,         \* the access_token field of the token response
    tokenRes,       \* how the token request ended
    listRes,        \* how the listing request ended
    sendIn, sendOut,    \* a request on its own: method and script, result
    flatIn, flatOut     \* a flattening on its own: document, row

vars == <<env, pc, token, uuids, idx, all_data, final_df, requests, calls,
          outcomes, logs, dir_made, file, raised, authCalls, issued,
          tokenRes, listRes, sendIn, sendOut, flatIn, flatOut>>

runVars == <<env, pc, token, uuids, idx, all_data, final_df, requests, calls,
             outcomes, logs, dir_made, file, raised, authCalls, issued,
             tokenRes, listRes>>

NoSend == [exc |-> NoExc, status |-> 0, attempts |-> 0]
NoInput == [method |-> "GET", script |-> [i \in 1..ScriptLen |-> 200]]

Environments ==
    [client_id : EnvValues, client_secret : EnvValues, report_dir : EnvValues]
FullEnv == [client_id |-> "set", client_secret |-> "set", report_dir |-> "set"]

InitRun ==
    /\ pc = "token"
    /\ token = NoToken
    /\ uuids = <<>>
    /\ idx = 1
    /\ all_data = <<>>
    /\ final_df = NoTable
    /\ requests = <<>>
    /\ calls = <<>>
    /\ outcomes = <<>>
    /\ logs = <<>>
    /\ dir_made = FALSE
    /\ file = NoTable
    /\ raised = NoExc
    /\ authCalls = 0
    /\ issued = NoToken
    /\ tokenRes = "pending"
    /\ listRes = "pending"

Init ==
    /\ env \in Environments
    /\ InitRun
    /\ sendIn = NoInput /\ sendOut = NoSend
    /\ flatIn = <<>> /\ flatOut = NoFrame

\* `except Exception as e` of main
MainCatchesRequestException(exc) == IsInstance(exc, "RequestException")

MainCatches(exc) == IsInstance(exc, "Exception")

\* an exception leaves the try body: lines 112-113, or out of main
Except(exc, lg) ==
    /\ raised' = exc
    /\ IF MainCatches(exc)
       THEN pc' = "done" /\ logs' = logs \o lg \o <<"error:script">>
       ELSE pc' = "crashed" /\ logs' = logs \o lg

ResultKind(exc) ==
    IF exc = NoExc THEN "ok"
    ELSE IF IsInstance(exc, "RequestException") THEN "failed"
    ELSE IF exc = "EnvironmentError" THEN "config"
    ELSE "malformed"

\* line 91: token = fetch_access_token(session)
Token ==
    /\ pc = "token"
    /\ \E reply \in Replies("POST"), body \in TokenBodies :
        LET r == fetch_access_token(env, reply, body) IN
        /\ requests' = requests \o r.reqs
        /\ authCalls' = authCalls + 1
        /\ tokenRes' = ResultKind(r.exc)
        /\ issued' = IF r.exc = NoExc THEN body.access_token ELSE NoToken
        /\ IF r.exc = NoExc
           THEN /\ token' = r.ret
                /\ pc' = "list"
                /\ logs' = logs \o r.logs
                /\ raised' = raised
           ELSE /\ token' = token
                /\ Except(r.exc, r.logs)
    /\ UNCHANGED <<env, uuids, idx, all_data, final_df, calls, outcomes,
                   dir_made, file, listRes, sendIn, sendOut, flatIn, flatOut>>

ListedWell(body) ==
    body.shape = "list" /\ \A i \in 1..Len(body.items) : body.items[i] # NoUuid

\* lines 92-95: uuids = fetch_registration_uuids(session, token); all_data = []
List ==
    /\ pc = "list"
    /\ \E reply \in Replies("GET"), body \in ListBodies :
        LET r == fetch_registration_uuids(token, reply, body) IN
        /\ requests' = requests \o r.reqs
        /\ listRes' = IF IsInstance(r.exc, "RequestException") THEN "failed"
                      ELSE IF ListedWell(body) THEN "ok" ELSE "malformed"
        /\ IF r.exc = NoExc
           THEN /\ uuids' = r.ret
                /\ pc' = "loop"
                /\ logs' = logs \o r.logs \o <<"info:fetched">>
                /\ raised' = raised
           ELSE /\ uuids' = uuids
                /\ Except(r.exc, r.logs)
    /\ idx' = 1
    /\ all_data' = <<>>
    /\ UNCHANGED <<env, token, final_df, calls, outcomes, dir_made, file,
                   authCalls, issued, tokenRes, sendIn, sendOut, flatIn,
                   flatOut>>

\* `if df is not None: all_data.append(df)`
CollectFirst(data, r) == IF r.none THEN data ELSE <<r.df>> \o data

Collect(data, r) == IF r.none THEN data ELSE Append(data, r.df)

\* how a call of fetch_registration_detail ended, and the object it was served
Outcome(r, body) ==
    IF r.exc # NoExc THEN [res |-> "malformed", body |-> ScalarBody]
    ELSE IF r.none THEN [res |-> "failed", body |-> ScalarBody]
    ELSE [res |-> "ok", body |-> body]

\* lines 96-99: one turn of the for loop
Detail ==
    /\ pc = "loop"
    /\ idx <= Len(uuids)
    /\ \E reply \in Replies("GET"), body \in DetailBodies :
        LET r == fetch_registration_detail(token, uuids[idx], reply, body) IN
        /\ requests' = requests \o r.reqs
        /\ calls' = Append(calls, [token |-> token, uuid |-> uuids[idx]])
        /\ outcomes' = Append(outcomes, Outcome(r, body))
        /\ IF r.exc = NoExc
           THEN /\ all_data' = Collect(all_data, r)
                /\ idx' = idx + 1
                /\ pc' = "loop"
                /\ logs' = logs \o r.logs
                /\ raised' = raised
           ELSE /\ all_data' = all_data
                /\ idx' = idx
                /\ Except(r.exc, r.logs)
    /\ UNCHANGED <<env, token, uuids, final_df, dir_made, file, authCalls,
                   issued, tokenRes, listRes, sendIn, sendOut, flatIn,
                   flatOut>>

\* `if not all_data`
NoDataNever(data) == FALSE

NoData(data) == data = <<>>

\* lines 101-105: the loop is over; nothing to report, or the concatenation
Aggregate ==
    /\ pc = "loop"
    /\ idx > Len(uuids)
    /\ IF NoData(all_data)
       THEN /\ logs' = logs \o <<"warning:nodata">>
            /\ pc' = "done"
            /\ UNCHANGED <<final_df, raised>>
       ELSE LET t == Concat(all_data) IN
            IF t.exc = NoExc
            THEN /\ final_df' = t
                 /\ pc' = "report_dir"
                 /\ UNCHANGED <<logs, raised>>
            ELSE /\ final_df' = final_df
                 /\ Except(t.exc, <<>>)
    /\ UNCHANGED <<env, token, uuids, idx, all_data, requests, calls,
                   outcomes, dir_made, file, authCalls, issued, tokenRes,
                   listRes, sendIn, sendOut, flatIn, flatOut>>

\* line 106: report_dir = get_report_dir(); os.makedirs may fail
GetReportDir ==
    /\ pc = "report_dir"
    /\ IF ReportDirMissing(env.report_dir)
       THEN /\ Except("EnvironmentError", <<>>)
            /\ dir_made' = dir_made
       ELSE \E made \in BOOLEAN :
            IF made
            THEN /\ dir_made' = TRUE
                 /\ pc' = "to_excel"
                 /\ UNCHANGED <<logs, raised>>
            ELSE /\ dir_made' = dir_made
                 /\ Except("OSError", <<>>)
    /\ UNCHANGED <<env, token, uuids, idx, all_data, final_df, requests,
                   calls, outcomes, file, authCalls, issued, tokenRes,
                   listRes, sendIn, sendOut, flatIn, flatOut>>

\* lines 107-110: final_df.to_excel(filename); the write may fail
ToExcel ==
    /\ pc = "to_excel"
    /\ \E written \in BOOLEAN :
        IF written
        THEN /\ file' = final_df
             /\ logs' = logs \o <<"info:saved">>
             /\ pc' = "done"
             /\ raised' = raised
        ELSE /\ file' = file
             /\ Except("OSError", <<>>)
    /\ UNCHANGED <<env, token, uuids, idx, all_data, final_df, requests,
                   calls, outcomes, dir_made, authCalls, issued, tokenRes,
                   listRes, sendIn, sendOut, flatIn, flatOut>>

Next == Token \/ List \/ Detail \/ Aggregate \/ GetReportDir \/ ToExcel

Spec == Init /\ [][Next]_vars

\* main() is one sequential thread: a step that can be taken is taken
FairSpec == Spec /\ WF_vars(Next)

(***************************************************************************)
(* A single request through the session, for every method and every        *)
(* script of server answers.                                               *)
(***************************************************************************)
InitSend ==
    /\ env = FullEnv
    /\ InitRun
    /\ sendIn \in [method : Methods, script : Scripts]
    /\ sendOut = NoSend
    /\ flatIn = <<>> /\ flatOut = NoFrame

Send ==
    /\ sendOut = NoSend
    /\ sendOut' = Request(sendIn.method, sendIn.script)
    /\ UNCHANGED <<runVars, sendIn, flatIn, flatOut>>

NextSend == Send

SpecSend == InitSend /\ [][NextSend]_vars

(***************************************************************************)
(* The flattening of a single detail object, for every generated object.   *)
(***************************************************************************)
InitFlatten ==
    /\ env = FullEnv
    /\ InitRun
    /\ sendIn = NoInput /\ sendOut = NoSend
    /\ flatIn \in Docs
    /\ flatOut = NoFrame

FlattenDoc ==
    /\ flatOut = NoFrame
    /\ flatOut' = Flatten("doc", flatIn)
    /\ UNCHANGED <<runVars, sendIn, sendOut, flatIn>>

NextFlatten == FlattenDoc

SpecFlatten == InitFlatten /\ [][NextFlatten]_vars

(***************************************************************************)
(* Properties.                                                             *)
(***************************************************************************)
Listed == \E i \in 1..Len(logs) : logs[i] = "info:fetched"
Logged(line) == \E i \in 1..Len(logs) : logs[i] = line
DetailRequests == SelectSeq(requests, LAMBDA q : q.kind = "detail")
Finished == pc \in {"done", "crashed"}

\* the calls of fetch_registration_detail that returned a row, in call order
OkCalls == {i \in 1..Len(outcomes) : outcomes[i].res = "ok"}
RECURSIVE Ascending(_)
Ascending(S) ==
    IF S = {} THEN <<>>
    ELSE LET m == CHOOSE x \in S : \A y \in S : x <= y
         IN  <<m>> \o Ascending(S \ {m})
ExpectedFrames ==
    LET order == Ascending(OkCalls) IN
    [n \in 1..Len(order) |->
        Flatten(uuids[order[n]], outcomes[order[n]].body.doc)]

\* the table row holds the cells of df under their labels and NaN elsewhere
RowHolds(row, cols, df) ==
    /\ Len(row) = Len(cols)
    /\ \A i \in 1..Len(df.cols) :
        \E j \in 1..Len(cols) : cols[j] = df.cols[i] /\ row[j] = df.vals[i]
    /\ \A j \in 1..Len(cols) :
        \/ row[j] = NaN
        \/ \E i \in 1..Len(df.cols) :
            df.cols[i] = cols[j] /\ df.vals[i] = row[j]

AtExport == pc \in {"report_dir", "to_excel"} \/ file # NoTable

(* C1: when main() reaches the export step the report table holds exactly  *)
(* the rows of the identifiers whose detail fetch returned a row, in the   *)
(* order of the listing and with repeated identifiers kept; a detail fetch *)
(* that failed by transport or HTTP error leaves the loop running with the *)
(* rows collected so far, and the file written is that table.              *)
C1_ReportHoldsFetchedRows ==
    /\ AtExport =>
        /\ Len(final_df.rows) = Len(ExpectedFrames)
        /\ \A n \in 1..Len(ExpectedFrames) :
            RowHolds(final_df.rows[n], final_df.cols, ExpectedFrames[n])
    /\ file # NoTable => file = final_df
    /\ \A i \in 1..Len(outcomes) :
        outcomes[i].res = "failed" =>
            /\ idx > i
            /\ (pc = "loop" /\ i = Len(outcomes) => raised = NoExc)
            /\ Len(all_data) = Cardinality(OkCalls)
    /\ (pc = "loop" /\ idx > Len(uuids)) => Len(outcomes) = Len(uuids)

C1_Witness ==
    /\ file # NoTable
    /\ Len(uuids) = 3
    /\ uuids[1] = uuids[3]
    /\ outcomes[1].res = "ok"
    /\ outcomes[2].res = "failed"
    /\ outcomes[3].res = "ok"
    /\ Len(file.rows) = 2

(* C2: for the N identifiers the listing returned, main() calls            *)
(* fetch_registration_detail exactly N times, once per identifier in list  *)
(* order and with the token fetch_access_token returned, whatever the      *)
(* earlier detail fetches came to.                                         *)
C2_DetailCalledPerIdentifier ==
    (Finished /\ Listed) =>
        calls = [i \in 1..Len(uuids) |-> [token |-> issued, uuid |-> uuids[i]]]

(* C3: a token or listing request that fails, by transport or HTTP error   *)
(* or by a body without access_token or without a list of objects with     *)
(* uuid, is fatal where it happens: the run ends in main's handler, no     *)
(* detail request is sent, no directory is made and no file is written.    *)
C3_TokenOrListingFailureIsFatal ==
    (tokenRes \in {"failed", "malformed"} \/ listRes \in {"failed", "malformed"})
        => /\ pc = "done"
           /\ raised # NoExc
           /\ DetailRequests = <<>>
           /\ calls = <<>>
           /\ ~dir_made
           /\ file = NoTable

\* what holds of every such run, fatal or not
NoReportAfterTokenOrListingFailure ==
    (tokenRes \in {"failed", "malformed"} \/ listRes \in {"failed", "malformed"})
        => /\ DetailRequests = <<>>
           /\ calls = <<>>
           /\ ~dir_made
           /\ file = NoTable

(* C4: when the listing returned N identifiers (N = 0 included) and every  *)
(* detail fetch failed, main() logs the no-data warning, writes no file,   *)
(* makes no directory and neither raises nor logs an error; and it does    *)
(* come to that end.                                                       *)
AllDetailFetchesFailed ==
    /\ Listed
    /\ Len(outcomes) = Len(uuids)
    /\ \A i \in 1..Len(outcomes) : outcomes[i].res = "failed"

C4_NoDataIsAWarning ==
    AllDetailFetchesFailed =>
        /\ pc \in {"loop", "done"}
        /\ raised = NoExc
        /\ ~Logged("error:script")
        /\ file = NoTable
        /\ ~dir_made
        /\ final_df = NoTable
        /\ pc = "done" => logs[Len(logs)] = "warning:nodata"

C4_Witness ==
    /\ pc = "done"
    /\ AllDetailFetchesFailed
    /\ Len(uuids) >= 2
    /\ Logged("warning:nodata")

(* C5: with EVENTIM_CLIENT_ID or EVENTIM_CLIENT_SECRET unset or empty the  *)
(* run sends no request at all, and its first step ends it with the        *)
(* configuration error.                                                    *)
C5_NoRequestWithoutCredentials ==
    (env.client_id \in {Unset, ""} \/ env.client_secret \in {Unset, ""}) =>
        /\ requests = <<>>
        /\ pc # "token" => (pc = "done" /\ raised = "EnvironmentError")

C5_Witness ==
    /\ pc = "done"
    /\ env.client_id = "set"
    /\ env.client_secret = Unset
    /\ raised = "EnvironmentError"
    /\ requests = <<>>

(* C6: with REPORT_OUTPUT_DIR unset the configuration error comes before   *)
(* any network activity: the run sends no token, listing or detail         *)
(* request.                                                                *)
C6_ReportDirCheckedBeforeNetwork ==
    env.report_dir = Unset => requests = <<>>

(* C7: every run of main() comes to its end, no exception leaves main(),   *)
(* and whatever was raised in the try body was logged by main's handler.   *)
C7_MainAlwaysReturns ==
    /\ [](pc # "crashed")
    /\ [](raised # NoExc => (pc = "done" /\ logs[Len(logs)] = "error:script"))
    /\ <>(pc = "done")

C7_Witness ==
    /\ pc = "done"
    /\ raised = "NotImplementedError"
    /\ Logged("error:script")

(* C8: fetch_access_token is called once, before the listing request; the  *)
(* token request is sent at most once and first; and the access_token of   *)
(* its response is the bearer token of the listing request and of every    *)
(* detail request and call, also after a failed detail fetch.              *)
C8_OneTokenUsedVerbatim ==
    /\ authCalls <= 1
    /\ pc # "token" => authCalls = 1
    /\ \A i \in 1..Len(requests) :
        /\ requests[i].kind = "token" <=> i = 1
        /\ i > 1 => /\ issued \in Tokens
                    /\ requests[i].auth = <<"Bearer", issued>>
    /\ \A i \in 1..Len(calls) : calls[i].token = issued

C8_Witness ==
    /\ pc = "done"
    /\ Len(outcomes) = 3
    /\ outcomes[1].res = "failed"
    /\ outcomes[2].res = "ok"
    /\ Len(DetailRequests) = 3
    /\ issued = "tokB"

(* C9: whatever the method, a request answered 500, 500 and then 200       *)
(* returns the successful response, and a request answered 500 four times *)
(* in a row fails.                                                         *)
C9_RetryBudgetForEveryRequest ==
    sendOut # NoSend =>
        /\ (/\ sendIn.script[1] = 500
            /\ sendIn.script[2] = 500
            /\ sendIn.script[3] = 200)
                => (sendOut.exc = NoExc /\ sendOut.status = 200)
        /\ (\A i \in 1..ScriptLen : sendIn.script[i] = 500)
                => sendOut.exc # NoExc

\* the same of the GET requests alone
RetryBudgetForGet ==
    (sendOut # NoSend /\ sendIn.method = "GET") =>
        /\ (/\ sendIn.script[1] = 500
            /\ sendIn.script[2] = 500
            /\ sendIn.script[3] = 200)
                => (sendOut.exc = NoExc /\ sendOut.status = 200
                    /\ sendOut.attempts = 3)
        /\ (\A i \in 1..ScriptLen : sendIn.script[i] = 500)
                => (sendOut.exc = "RetryError"
                    /\ sendOut.attempts = RetryTotal + 1)

\* the paths of the leaves of an object, each a sequence of keys
RECURSIVE LeafPaths(_, _)
LeafPaths(nodes, path) ==
    IF nodes = <<>> THEN {}
    ELSE LET n == Head(nodes) IN
         (IF n.leaf THEN {Append(path, n.k)}
          ELSE LeafPaths(n.kids, Append(path, n.k)))
         \cup LeafPaths(Tail(nodes), path)

\* the path written with dots, as json_normalize labels it
RECURSIVE Dotted(_)
Dotted(path) ==
    IF Len(path) = 1 THEN path[1]
    ELSE path[1] \o <<Dot>> \o Dotted(Tail(path))

\* the leaf name: the last dot-separated segment of the path
LeafName(path) == LastSegment(path[Len(path)])

Named(df, name) == {i \in 1..Len(df.cols) : df.cols[i] = name}
FieldNames(df) == {df.cols[i] : i \in 1..Len(df.cols)}

====
